---- MODULE Spec2Model ----
(***************************************************************************)
(* Model of app.py: the geocode-and-overlay rendering pass of the          *)
(* disaster-risk-district dashboard.  One pass of the script is a          *)
(* sequential process; pc is its position in the module-level code.        *)
(***************************************************************************)
EXTENDS Integers, Sequences, FiniteSets, TLC

\* Largest number of rows of the CSV dataset that is enumerated.
MaxRows == 2

-----------------------------------------------------------------------------
(* Python values.  A float is an exact fraction num/den in lowest terms, so *)
(* that equal floats are equal values.  NaN is pandas' missing value.       *)

RECURSIVE GCD(_, _)
GCD(a, b) == IF b = 0 THEN a ELSE GCD(b, a % b)

None == [t |-> "None"]
NaN == [t |-> "nan"]
Float(n, d) == [t |-> "float", num |-> n \div GCD(n, d), den |-> d \div GCD(n, d)]

notnull(v) == v # NaN /\ v # None

-----------------------------------------------------------------------------
(* The geocoding service.  An HTTP outcome is either a network failure      *)
(* (requests.get raises) or a response with a status and a body; a body is  *)
(* either not JSON (response.json() raises) or a JSON value.                *)

JNull == [jt |-> "null"]
JStr(s) == [jt |-> "string", s |-> s]
JNum(n) == [jt |-> "number", n |-> n]
JBool(b) == [jt |-> "bool", b |-> b]
JArr(a) == [jt |-> "array", a |-> a]
JObj(o) == [jt |-> "object", o |-> o]

\* The values address.x / address.y may carry.
CoordValues == {JStr("126"), JStr("35"), JNum(126), JStr("abc"), JNull}

\* An address object always has address_name; x and y may be missing.
AddressObjects ==
    {JObj([address_name |-> JStr("a"), x |-> vx, y |-> vy]) : vx \in CoordValues, vy \in CoordValues}
    \cup {JObj([address_name |-> JStr("a"), x |-> vx]) : vx \in CoordValues}
    \cup {JObj([address_name |-> JStr("a"), y |-> vy]) : vy \in CoordValues}
    \cup {JObj([address_name |-> JStr("a")])}

Documents ==
    {JObj([address |-> a]) : a \in AddressObjects \cup {JNull}}
    \cup {JObj([address_type |-> JStr("REGION")])}

OtherDocument == JObj([address |-> JObj([address_name |-> JStr("b"), x |-> JStr("35"), y |-> JStr("126")])])

DocumentLists ==
    {<<>>} \cup {<<d>> : d \in Documents} \cup {<<d, OtherDocument>> : d \in Documents}

Bodies ==
    {[json |-> FALSE]}
    \cup {[json |-> TRUE, value |-> JObj([documents |-> JArr(l)])] : l \in DocumentLists}
    \cup {[json |-> TRUE, value |-> JObj([errorType |-> JStr("AccessDeniedError")])]}
    \cup {[json |-> TRUE, value |-> JArr(<<>>)]}

Responses ==
    {[net |-> "fail"]}
    \cup {[net |-> "ok", status |-> s, body |-> b] : s \in {200, 401, 500}, b \in Bodies}

\* The outcome of evaluating a Python expression: a value or an exception.
Raise == [exc |-> TRUE]
Ok(v) == [exc |-> FALSE, v |-> v]

\* obj[key] on a parsed JSON value: KeyError / TypeError unless obj is a dict with the key.
GetItem(obj, key) ==
    IF obj.jt = "object" /\ key \in DOMAIN obj.o THEN Ok(obj.o[key]) ELSE Raise

\* lst[0]: IndexError on an empty list; a dict has no key 0; None is not subscriptable.
GetFirst(lst) ==
    IF lst.jt = "array" /\ Len(lst.a) > 0 THEN Ok(lst.a[1]) ELSE Raise

\* float(v): a number converts, True is 1.0, a string converts iff it spells a number.
PyFloat(v) ==
    CASE v.jt = "number" -> Ok(Float(v.n, 1))
      [] v.jt = "bool" -> Ok(Float(IF v.b THEN 1 ELSE 0, 1))
      [] v.jt = "string" /\ v.s = "126" -> Ok(Float(126, 1))
      [] v.jt = "string" /\ v.s = "35" -> Ok(Float(35, 1))
      [] OTHER -> Raise

\* The body of the try block of lat_long, given the outcome of requests.get.
lat_long_try(r) ==
    IF r.net = "fail" THEN Raise
    ELSE IF ~r.body.json THEN Raise
    ELSE LET docs == GetItem(r.body.value, "documents") IN
      IF docs.exc THEN Raise
      ELSE LET first == GetFirst(docs.v) IN
        IF first.exc THEN Raise
        ELSE LET address_xy == GetItem(first.v, "address") IN
          IF address_xy.exc THEN Raise
          ELSE LET gx == GetItem(address_xy.v, "x") IN
            IF gx.exc THEN Raise
            ELSE LET fx == PyFloat(gx.v) IN
              IF fx.exc THEN Raise
              ELSE LET gy == GetItem(address_xy.v, "y") IN
                IF gy.exc THEN Raise
                ELSE LET fy == PyFloat(gy.v) IN
                  IF fy.exc THEN Raise ELSE Ok(<<fx.v, fy.v>>)

\* lat_long: the pair it returns and whether st.error was called.
lat_long(r) ==
    LET t == lat_long_try(r) IN
    IF t.exc THEN [ret |-> <<None, None>>, error |-> TRUE, raised |-> FALSE]
    ELSE [ret |-> t.v, error |-> FALSE, raised |-> FALSE]

-----------------------------------------------------------------------------
(* The CSV dataset.  A row carries the columns the map reads; a missing     *)
(* cell is NaN.                                                             *)

Row(x, y, area, type) ==
    [x |-> x, y |-> y, DSGN_AREA |-> area, DST_RSK_DSTRCT_TYPE_CD |-> type]

RowKinds ==
    { Row(Float(12671, 100), Float(3503, 100), Float(100, 1), Float(2, 1)),
      Row(Float(127, 1), NaN, Float(4, 1), Float(1, 1)),
      Row(NaN, Float(36, 1), Float(4, 1), Float(3, 1)),
      Row(Float(128, 1), Float(37, 1), NaN, Float(4, 1)),
      Row(Float(125, 1), Float(34, 1), Float(9, 1), NaN),
      Row(Float(129, 1), Float(33, 1), Float(4, 1), Float(7, 1)) }

RECURSIVE SeqsUpTo(_, _)
SeqsUpTo(S, n) ==
    IF n = 0 THEN {<<>>}
    ELSE LET shorter == SeqsUpTo(S, n - 1) IN
         shorter \cup {Append(q, e) : q \in {p \in shorter : Len(p) = n - 1}, e \in S}

Datasets == SeqsUpTo(RowKinds, MaxRows)

\* Series.mean(): the mean of the non-missing cells of one column, NaN if there is none.
RECURSIVE SumNum(_, _)
SumNum(cells, den) ==
    IF cells = <<>> THEN 0
    ELSE Head(cells).num * (den \div Head(cells).den) + SumNum(Tail(cells), den)

RECURSIVE LCMDen(_)
LCMDen(cells) ==
    IF cells = <<>> THEN 1
    ELSE LET rest == LCMDen(Tail(cells)) IN
         (Head(cells).den * rest) \div GCD(Head(cells).den, rest)

\* A mean that divides by the number of rows, missing cells included.
mean_over_all_rows(column) ==
    LET cells == SelectSeq(column, notnull) IN
    IF cells = <<>> THEN NaN
    ELSE Float(SumNum(cells, LCMDen(cells)), LCMDen(cells) * Len(column))

mean(column) ==
    LET cells == SelectSeq(column, notnull) IN
    IF cells = <<>> THEN NaN
    ELSE Float(SumNum(cells, LCMDen(cells)), LCMDen(cells) * Len(cells))

Column(frame, name) == [k \in 1..Len(frame) |-> frame[k][name]]

color_map ==
    (1 :> "blue") @@ (2 :> "purple") @@ (3 :> "gray") @@ (4 :> "orange")
    @@ (5 :> "green") @@ (6 :> "darkblue")

\* color_map.get(key, default): a float key equals an int key of the same value.
color_map_get(key, default) ==
    IF key.t = "float" /\ key.den = 1 /\ key.num \in DOMAIN color_map
    THEN color_map[key.num] ELSE default

\* The area used as the radius, the square root left out.
Sqrt_omitted(value) == value

\* value ** 0.5 on a float cell: NaN stays NaN.
Sqrt(value) ==
    IF value.t # "float" THEN NaN
    ELSE Float(CHOOSE r \in 0..value.num : r * r = value.num,
               CHOOSE r \in 1..value.den : r * r = value.den)

-----------------------------------------------------------------------------
(* The map.  folium.Map validates its location; an element's add_to        *)
(* appends it to the map's children.                                        *)

NoMap == [t |-> "None"]

\* validate_location: every coordinate must convert to a float that is not NaN.
ValidLocation(location) == \A k \in 1..Len(location) : location[k].t = "float"

zoom_start(addr) == IF addr # "" THEN 15 ELSE 8

\* An element put in front of the map's children instead of behind them.
add_to_front(element, folium_map) ==
    [folium_map EXCEPT !.children = <<element>> \o @]

add_to(element, folium_map) ==
    [folium_map EXCEPT !.children = Append(@, element)]

Circle(row) ==
    LET radius == Sqrt(row.DSGN_AREA)
        color == color_map_get(row.DST_RSK_DSTRCT_TYPE_CD, "red")
    IN [kind |-> "Circle", location |-> <<row.y, row.x>>, radius |-> radius,
        color |-> color, fill |-> TRUE, fill_color |-> color,
        popup |-> [DST_RSK_DSTRCT_TYPE_CD |-> row.DST_RSK_DSTRCT_TYPE_CD]]

\* The loop condition without its DSGN_AREA test.
RowQualifies_without_area(row) ==
    notnull(row.y) /\ notnull(row.x)

\* The condition of the circle loop.
RowQualifies(row) ==
    notnull(row.y) /\ notnull(row.x) /\ notnull(row.DSGN_AREA)

Marker(x, y, addr) ==
    [kind |-> "Marker", location |-> <<y, x>>, popup |-> [text |-> addr]]

-----------------------------------------------------------------------------
(* The parcel files.  json_files is the configured list (the Korean file    *)
(* names are romanised: non, bat, gwasu, bigyeongji, siseol); the content   *)
(* of a file is the list output.farmmapData.data of parcel items.           *)

json_files ==
    << [path |-> "./data/haksan_non.json", color |-> "yellow"],
       [path |-> "./data/haksan_bat.json", color |-> "green"],
       [path |-> "./data/haksan_gwasu.json", color |-> "red"],
       [path |-> "./data/haksan_bigyeongji.json", color |-> "brown"],
       [path |-> "./data/haksan_siseol.json", color |-> "gray"] >>

\* A ring of three vertices in projected coordinates (EPSG:5179-like metres).
Ring(k) ==
    [xy |-> << [x |-> 1000 + k, y |-> 2000 + k],
               [x |-> 1010 + k, y |-> 2000 + k],
               [x |-> 1000 + k, y |-> 2010 + k] >>]

ParcelDatas ==
    { <<>>,
      << [uid |-> "u1", pnu |-> "p1", geometry |-> <<Ring(1)>>] >>,
      << [uid |-> "u2", pnu |-> "p2", geometry |-> <<Ring(2), Ring(3)>>],
         [uid |-> "u3", pnu |-> "p3", geometry |-> <<Ring(4)>>] >> }

\* transformer.transform(a, b): projected (northing, easting) to (latitude, longitude).
\* The reprojection is abstracted as an injective affine map.
transform(a, b) == <<a - 2000 + 38, b - 1000 + 127>>

\* Lines 200-210: the converted rings of every item, with the item's uid and pnu.
coordinates_list(data) ==
    [k \in 1..Len(data) |->
        [uid |-> data[k].uid, pnu |-> data[k].pnu,
         coordinates |->
            [g \in 1..Len(data[k].geometry) |->
                [c \in 1..Len(data[k].geometry[g].xy) |->
                    transform(data[k].geometry[g].xy[c].y, data[k].geometry[g].xy[c].x)]]]]

Polygon(coordinates, file_info, polygon_info) ==
    [kind |-> "Polygon", locations |-> coordinates, color |-> file_info.color,
     weight |-> 2, fill |-> TRUE, fill_color |-> file_info.color,
     popup |-> [uid |-> polygon_info.uid, pnu |-> polygon_info.pnu]]

\* One polygon per item, from its first ring only.
AddRings_first_only(folium_map, rings, file_info, polygon_info) ==
    IF rings = <<>> THEN folium_map
    ELSE add_to(Polygon(Head(rings), file_info, polygon_info), folium_map)

\* Lines 214-222: one polygon per ring of one item, in ring order.
RECURSIVE AddRings(_, _, _, _)
AddRings(folium_map, rings, file_info, polygon_info) ==
    IF rings = <<>> THEN folium_map
    ELSE AddRings(add_to(Polygon(Head(rings), file_info, polygon_info), folium_map),
                  Tail(rings), file_info, polygon_info)

\* Lines 213-222: the polygons of every item of the file, in item order.
RECURSIVE AddPolygons(_, _, _)
AddPolygons(folium_map, infos, file_info) ==
    IF infos = <<>> THEN folium_map
    ELSE AddPolygons(AddRings(folium_map, Head(infos).coordinates, file_info, Head(infos)),
                     Tail(infos), file_info)

-----------------------------------------------------------------------------
(* State of one rendering pass.                                             *)

VARIABLES
    address,      \* the text of the address input
    df,           \* the dataset read from the CSV file
    pc,           \* position of the pass in the script
    i,            \* index of the next row of the circle loop
    f,            \* index of the next file of the parcel loop
    address_x,    \* x of the map centre
    address_y,    \* y of the map centre
    m,            \* the folium map, NoMap before line 149
    messages,     \* st.error / st.success calls, in order
    geocodes,     \* the pair returned by each lat_long call of the pass, in order
    loaded,       \* the content of every parcel file read so far, in file order
    response,     \* the HTTP outcome handed to a stand-alone lat_long call
    returned      \* what that call returned

vars == <<address, df, pc, i, f, address_x, address_y, m, messages, geocodes,
          loaded, response, returned>>

Addresses == {"", "Naju Noan Haksan-gil 70-17"}

\* The outcomes of the geocoding service enumerated within a rendering pass.
PassResponses ==
    { [net |-> "fail"],
      [net |-> "ok", status |-> 200, body |-> [json |-> TRUE, value |-> JObj([documents |-> JArr(<<>>)])]],
      [net |-> "ok", status |-> 200, body |->
          [json |-> TRUE, value |-> JObj([documents |-> JArr(<<
              JObj([address |-> JObj([address_name |-> JStr("a"), x |-> JStr("126"), y |-> JStr("35")])]) >>)])]] }

NoCall == [ret |-> <<None, None>>, error |-> FALSE, raised |-> FALSE]
NoResponse == [net |-> "none"]

Init ==
    /\ address \in Addresses
    /\ df \in Datasets
    /\ pc = "center"
    /\ i = 1
    /\ f = 1
    /\ address_x = None
    /\ address_y = None
    /\ m = NoMap
    /\ messages = <<>>
    /\ geocodes = <<>>
    /\ loaded = <<>>
    /\ response = NoResponse
    /\ returned = NoCall

\* Lines 144-147: the centre is the geocoded address, or the column means.
ComputeCenter ==
    /\ pc = "center"
    /\ IF address # ""
       THEN \E r \in PassResponses :
              LET res == lat_long(r) IN
              /\ address_x' = res.ret[1]
              /\ address_y' = res.ret[2]
              /\ geocodes' = Append(geocodes, res.ret)
              /\ messages' = IF res.error THEN Append(messages, "error: Error") ELSE messages
       ELSE /\ address_x' = mean(Column(df, "x"))
            /\ address_y' = mean(Column(df, "y"))
            /\ UNCHANGED <<geocodes, messages>>
    /\ pc' = "map"
    /\ UNCHANGED <<address, df, i, f, m, loaded, response, returned>>

\* Line 149: folium.Map raises ValueError on a location that is None or NaN,
\* which ends the pass; otherwise the map exists and the circle loop starts.
CreateMap ==
    /\ pc = "map"
    /\ IF ValidLocation(<<address_y, address_x>>)
       THEN /\ m' = [location |-> <<address_y, address_x>>,
                     zoom_start |-> zoom_start(address), children |-> <<>>]
            /\ pc' = IF Len(df) = 0 THEN "mark" ELSE "circles"
       ELSE /\ m' = m
            /\ pc' = "aborted"
    /\ UNCHANGED <<address, df, i, f, address_x, address_y, messages, geocodes,
                   loaded, response, returned>>

\* Lines 152-177: one iteration of the circle loop.
CircleRow ==
    /\ pc = "circles"
    /\ i <= Len(df)
    /\ m' = IF RowQualifies(df[i]) THEN add_to(Circle(df[i]), m) ELSE m
    /\ i' = i + 1
    /\ pc' = IF i = Len(df) THEN "mark" ELSE "circles"
    /\ UNCHANGED <<address, df, f, address_x, address_y, messages, geocodes,
                   loaded, response, returned>>

\* Lines 179-180 and 114-121: mark_address_on_map geocodes the address again.
MarkAddress ==
    /\ pc = "mark"
    /\ IF address # ""
       THEN \E r \in PassResponses :
              LET res == lat_long(r)
                  x == res.ret[1]
                  y == res.ret[2]
                  shown == IF res.error THEN Append(messages, "error: Error") ELSE messages
              IN
              /\ geocodes' = Append(geocodes, res.ret)
              /\ IF x = None \/ y = None
                 THEN /\ messages' = Append(shown, "error: Failed to get coordinates for the address.")
                      /\ m' = m
                 ELSE /\ m' = add_to(Marker(x, y, address), m)
                      /\ messages' = Append(shown, "success: Address marker has been added to the map.")
       ELSE UNCHANGED <<geocodes, messages, m>>
    /\ pc' = "polygons"
    /\ UNCHANGED <<address, df, i, f, address_x, address_y, loaded, response, returned>>

\* Lines 195-222: one iteration of the parcel loop: read the file, convert
\* its rings, add one polygon per ring.
ProcessFile ==
    /\ pc = "polygons"
    /\ f <= Len(json_files)
    /\ \E data \in ParcelDatas :
         /\ loaded' = Append(loaded, data)
         /\ m' = AddPolygons(m, coordinates_list(data), json_files[f])
    /\ f' = f + 1
    /\ pc' = IF f = Len(json_files) THEN "display" ELSE "polygons"
    /\ UNCHANGED <<address, df, i, address_x, address_y, messages, geocodes,
                   response, returned>>

\* Line 225: folium_static(m).
Display ==
    /\ pc = "display"
    /\ pc' = "done"
    /\ UNCHANGED <<address, df, i, f, address_x, address_y, m, messages, geocodes,
                   loaded, response, returned>>

Next ==
    \/ ComputeCenter
    \/ CreateMap
    \/ CircleRow
    \/ MarkAddress
    \/ ProcessFile
    \/ Display

Spec == Init /\ [][Next]_vars

-----------------------------------------------------------------------------
(* lat_long on its own: every outcome of the service, one call.             *)

InitGeo ==
    /\ address = "Naju Noan Haksan-gil 70-17"
    /\ df = <<>>
    /\ pc = "call"
    /\ i = 1
    /\ f = 1
    /\ address_x = None
    /\ address_y = None
    /\ m = NoMap
    /\ messages = <<>>
    /\ geocodes = <<>>
    /\ loaded = <<>>
    /\ response \in Responses
    /\ returned = NoCall

CallLatLong ==
    /\ pc = "call"
    /\ returned' = lat_long(response)
    /\ messages' = IF returned'.error THEN Append(messages, "error: Error") ELSE messages
    /\ pc' = "returned"
    /\ UNCHANGED <<address, df, i, f, address_x, address_y, m, geocodes, loaded, response>>

NextGeo == CallLatLong

SpecGeo == InitGeo /\ [][NextGeo]_vars

-----------------------------------------------------------------------------
(* Helpers of the properties, written from the statements, not the code.    *)

NonePair == <<None, None>>

\* The pass is past line 149.
PastMap == pc \in {"circles", "mark", "polygons", "display", "done", "aborted"}

\* The marker step (lines 179-180) is over.
PastMark == pc \in {"polygons", "display", "done"}

\* Number of dataset rows the circle loop has gone through.
Processed ==
    IF pc = "circles" THEN i - 1
    ELSE IF pc \in {"mark", "polygons", "display", "done"} THEN Len(df) ELSE 0

Present(v) == v.t = "float"

AllThreePresent(row) == Present(row.x) /\ Present(row.y) /\ Present(row.DSGN_AREA)

OfKind(kind) == SelectSeq(m.children, LAMBDA e : e.kind = kind)

\* c is the mean of the fractions in cells.
IsMeanOf(c, cells) ==
    /\ cells # <<>>
    /\ Present(c)
    /\ c.num * Len(cells) * LCMDen(cells) = SumNum(cells, LCMDen(cells)) * c.den

PresentCells(name) == SelectSeq(Column(df, name), Present)

BothPresentRows == SelectSeq(df, LAMBDA row : Present(row.x) /\ Present(row.y))

FirstGeocodeFailed == address # "" /\ Len(geocodes) >= 1 /\ geocodes[1] = NonePair

FirstGeocodeSucceeded == address # "" /\ Len(geocodes) >= 1 /\ geocodes[1] # NonePair

RECURSIVE RingCount(_)
RingCount(data) ==
    IF data = <<>> THEN 0 ELSE Len(Head(data).geometry) + RingCount(Tail(data))

\* The rings of a file in item order then ring order, each with its owner.
RECURSIVE RingsOf(_)
RingsOf(data) ==
    IF data = <<>> THEN <<>>
    ELSE [g \in 1..Len(Head(data).geometry) |->
            [uid |-> Head(data).uid, pnu |-> Head(data).pnu, ring |-> Head(data).geometry[g]]]
         \o RingsOf(Tail(data))

FileOfColor(color) == CHOOSE k \in 1..Len(json_files) : json_files[k].color = color

PolygonsOfFile(k) ==
    SelectSeq(m.children, LAMBDA e : e.kind = "Polygon" /\ e.color = json_files[k].color)

RECURSIVE TotalRings(_)
TotalRings(files) ==
    IF files = <<>> THEN 0 ELSE RingCount(Head(files)) + TotalRings(Tail(files))

-----------------------------------------------------------------------------
\* C1: once a non-empty address has failed to geocode, the map is created with
\* the mean of the dataset's x/y values as its centre and zoom 8.
C1_FailedGeocodeFallsBackToCentroid ==
    (FirstGeocodeFailed /\ PastMap /\ PresentCells("x") # <<>> /\ PresentCells("y") # <<>>) =>
        /\ m # NoMap
        /\ IsMeanOf(m.location[1], PresentCells("y"))
        /\ IsMeanOf(m.location[2], PresentCells("x"))
        /\ m.zoom_start = 8

\* C2: a pass whose geocoding failed is never aborted: it has shown a warning,
\* and when it ends it has displayed the map with every qualifying circle and
\* every parcel polygon.
C2_FailedGeocodeNeverAborts ==
    (FirstGeocodeFailed /\ PastMap) =>
        /\ messages # <<>>
        /\ pc # "aborted"
        /\ (pc = "done" =>
              /\ Len(OfKind("Circle")) = Len(SelectSeq(df, AllThreePresent))
              /\ Len(OfKind("Polygon")) = TotalRings(loaded))

\* C4: a pass issues at most one geocode request: none for an empty address,
\* exactly one for a non-empty address.
C4_AtMostOneGeocodeRequest ==
    /\ Len(geocodes) <= 1
    /\ (address = "" => Len(geocodes) = 0)
    /\ (address # "" /\ PastMap => Len(geocodes) = 1)

\* C5: the finished overlay holds at most one marker, and exactly one, at the
\* map centre and labelled with the address, iff a non-empty address was
\* geocoded successfully.
C5_MarkerIffGeocoded ==
    (PastMark /\ m # NoMap) =>
        /\ Len(OfKind("Marker")) <= 1
        /\ ( ( /\ Len(OfKind("Marker")) = 1
               /\ OfKind("Marker")[1].location = m.location
               /\ OfKind("Marker")[1].popup.text = address )
             <=> FirstGeocodeSucceeded )

-----------------------------------------------------------------------------
(* lat_long                                                                 *)

IsNumeric(v) == v.jt = "number" \/ (v.jt = "string" /\ v.s \in {"126", "35"})

NumberOf(v) == IF v.jt = "number" THEN v.n ELSE IF v.s = "126" THEN 126 ELSE 35

HasDocuments(r) ==
    /\ r.net = "ok"
    /\ r.body.json
    /\ r.body.value.jt = "object"
    /\ "documents" \in DOMAIN r.body.value.o
    /\ r.body.value.o.documents.jt = "array"

FirstDocument(r) == r.body.value.o.documents.a[1]

HasCoordinates(doc) ==
    /\ doc.jt = "object"
    /\ "address" \in DOMAIN doc.o
    /\ doc.o.address.jt = "object"
    /\ "x" \in DOMAIN doc.o.address.o
    /\ "y" \in DOMAIN doc.o.address.o
    /\ IsNumeric(doc.o.address.o.x)
    /\ IsNumeric(doc.o.address.o.y)

\* A 2xx response whose body is JSON with a non-empty documents array whose
\* first document has numeric address.x and address.y.
WellFormed(r) ==
    /\ HasDocuments(r)
    /\ r.status \in 200..299
    /\ r.body.value.o.documents.a # <<>>
    /\ HasCoordinates(FirstDocument(r))

\* C6: lat_long returns (None, None) without raising on every failed outcome
\* (network failure, non-2xx, invalid JSON, no or empty documents, a first
\* document without numeric address.x / address.y) and the first document's
\* floats on every well-formed response.
C6_LatLongTotal ==
    pc = "returned" =>
        /\ ~returned.raised
        /\ IF WellFormed(response)
           THEN returned.ret =
                  << Float(NumberOf(FirstDocument(response).o.address.o.x), 1),
                     Float(NumberOf(FirstDocument(response).o.address.o.y), 1) >>
           ELSE returned.ret = NonePair

-----------------------------------------------------------------------------
\* C3 as stated: with no address the centre is the mean of x and of y over the
\* rows where both are present, zoom 8; with a geocoded address it is the
\* geocoded point, zoom 15.
C3_CenterIsMeanOfCompletePairs ==
    m # NoMap =>
        IF address = ""
        THEN /\ IsMeanOf(m.location[1], Column(BothPresentRows, "y"))
             /\ IsMeanOf(m.location[2], Column(BothPresentRows, "x"))
             /\ m.zoom_start = 8
        ELSE /\ m.location = <<geocodes[1][2], geocodes[1][1]>>
             /\ m.zoom_start = 15

\* C3 amended: with no address and at least one x and one y present, the map
\* is created with centre x = mean of the present x cells and centre
\* y = mean of the present y cells, each column on its own, zoom 8; with an
\* address whose first geocoding succeeded, centre = (returned y, returned x),
\* zoom 15.
C3_CenterIsColumnMeans ==
    PastMap =>
        /\ (address = "" /\ PresentCells("x") # <<>> /\ PresentCells("y") # <<>>) =>
              /\ m # NoMap
              /\ IsMeanOf(m.location[1], PresentCells("y"))
              /\ IsMeanOf(m.location[2], PresentCells("x"))
              /\ m.zoom_start = 8
        /\ FirstGeocodeSucceeded =>
              /\ m # NoMap
              /\ m.location = <<geocodes[1][2], geocodes[1][1]>>
              /\ m.zoom_start = 15

\* A map centred on column means that differ from the complete-pair means,
\* and (other passes) a map centred on a geocoded point.
C3_Witness ==
    /\ m # NoMap
    /\ address = ""
    /\ Len(PresentCells("x")) > Len(BothPresentRows)
    /\ BothPresentRows # <<>>
    /\ m.zoom_start = 8

-----------------------------------------------------------------------------
\* C7: a row produces a circle iff its x, y and DSGN_AREA are all present,
\* whatever its type code: after any number of rows the number of circles is
\* the number of rows gone through that have all three, and no row aborts
\* the loop.
C7_CircleIffAllThreePresent ==
    m # NoMap =>
        /\ Len(OfKind("Circle")) =
             Cardinality({k \in 1..Processed : AllThreePresent(df[k])})
        /\ (pc = "circles" => i <= Len(df))

C7_Witness ==
    /\ pc = "done"
    /\ Len(OfKind("Circle")) = 1
    /\ \E k \in 1..Len(df) : ~Present(df[k].DSGN_AREA)
    /\ \E k \in 1..Len(df) : AllThreePresent(df[k]) /\ ~Present(df[k].DST_RSK_DSTRCT_TYPE_CD)

\* Rank of an overlay element in the order circles, marker, polygons by file.
Rank(e) ==
    CASE e.kind = "Circle" -> 0
      [] e.kind = "Marker" -> 1
      [] OTHER -> 1 + FileOfColor(e.color)

\* C8: the overlay lists all circles in dataset row order, then the marker if
\* any, then the polygons grouped by file in the configured file order.
C8_InsertionOrder ==
    m # NoMap =>
        /\ \A a \in 1..Len(m.children) : \A b \in a..Len(m.children) :
              Rank(m.children[a]) <= Rank(m.children[b])
        /\ [k \in 1..Len(OfKind("Circle")) |-> OfKind("Circle")[k].location]
             = [k \in 1..Len(SelectSeq(SubSeq(df, 1, Processed), AllThreePresent)) |->
                  << SelectSeq(SubSeq(df, 1, Processed), AllThreePresent)[k].y,
                     SelectSeq(SubSeq(df, 1, Processed), AllThreePresent)[k].x >>]

C8_Witness ==
    /\ pc = "done"
    /\ Len(OfKind("Circle")) = 2
    /\ OfKind("Circle")[1].location # OfKind("Circle")[2].location
    /\ Len(OfKind("Marker")) = 1
    /\ Len(PolygonsOfFile(2)) > 0
    /\ Len(PolygonsOfFile(5)) > 0

ExpectedColor(type) ==
    CASE type = Float(1, 1) -> "blue"
      [] type = Float(2, 1) -> "purple"
      [] type = Float(3, 1) -> "gray"
      [] type = Float(4, 1) -> "orange"
      [] type = Float(5, 1) -> "green"
      [] type = Float(6, 1) -> "darkblue"
      [] OTHER -> "red"

CircleMatchesRow(c, row) ==
    /\ c.location = <<row.y, row.x>>
    /\ Present(c.radius)
    /\ c.radius.num * c.radius.num * row.DSGN_AREA.den
         = row.DSGN_AREA.num * c.radius.den * c.radius.den
    /\ c.color = ExpectedColor(row.DST_RSK_DSTRCT_TYPE_CD)
    /\ c.fill_color = c.color

\* C9: every circle sits at (row y, row x), has radius sqrt(DSGN_AREA) and the
\* colour of the row's type code, red when the code is unknown or missing;
\* the row x=126.71, y=35.03, area=100, type=2 gives (35.03, 126.71), 10, purple.
C9_CircleGeometryAndColor ==
    m # NoMap =>
        LET rows == SelectSeq(SubSeq(df, 1, Processed), AllThreePresent)
            circles == OfKind("Circle")
        IN /\ Len(circles) = Len(rows)
           /\ \A k \in 1..Len(circles) :
                /\ CircleMatchesRow(circles[k], rows[k])
                /\ (rows[k] = Row(Float(12671, 100), Float(3503, 100), Float(100, 1), Float(2, 1)) =>
                      /\ circles[k].location = <<Float(3503, 100), Float(12671, 100)>>
                      /\ circles[k].radius = Float(10, 1)
                      /\ circles[k].color = "purple")

C9_Witness ==
    /\ pc = "done"
    /\ \E k \in 1..Len(OfKind("Circle")) :
          OfKind("Circle")[k].color = "purple" /\ OfKind("Circle")[k].radius = Float(10, 1)
    /\ \E k \in 1..Len(OfKind("Circle")) :
          OfKind("Circle")[k].color = "red" /\ OfKind("Circle")[k].radius = Float(3, 1)

ShapeMatchesRing(shape, owned, file_info) ==
    /\ shape.locations =
         [c \in 1..Len(owned.ring.xy) |-> transform(owned.ring.xy[c].y, owned.ring.xy[c].x)]
    /\ shape.color = file_info.color
    /\ shape.popup.uid = owned.uid
    /\ shape.popup.pnu = owned.pnu

\* C10: for each file read, its polygons correspond one to one, in order, to
\* the rings of its items: as many polygons as rings, each with its ring's
\* vertices in order, the file's colour and the owner's uid and pnu.
C10_OnePolygonPerRing ==
    m # NoMap =>
        \A k \in 1..Len(loaded) :
            /\ Len(PolygonsOfFile(k)) = RingCount(loaded[k])
            /\ \A j \in 1..Len(PolygonsOfFile(k)) :
                  ShapeMatchesRing(PolygonsOfFile(k)[j], RingsOf(loaded[k])[j], json_files[k])

C10_Witness ==
    /\ pc = "done"
    /\ \E k \in 1..Len(loaded) :
          /\ \E n \in 1..Len(loaded[k]) : Len(loaded[k][n].geometry) = 2
          /\ Len(loaded[k]) = 2
          /\ Len(PolygonsOfFile(k)) = 3

====
